---- MODULE Spec2Model ----
(***************************************************************************)
(* MiniEngine: the frame loop of App (src/src/app.cpp), its swapchain      *)
(* lifecycle and its teardown, against an asynchronous GPU and an          *)
(* asynchronous window system.                                             *)
(*                                                                         *)
(* The control thread is a program counter `pc` that stops at every call   *)
(* into Vulkan / GLFW; the GPU and the window system are separate actions  *)
(* that interleave with it.                                                *)
(***************************************************************************)
EXTENDS Integers, Sequences, FiniteSets, TLC

\* ------------------------------------------------------------------ constants
MAX_FRAMES_IN_FLIGHT == 2
WIDTH == 800
HEIGHT == 600
\* The value of currentExtent.width that means "the surface has no extent of
\* its own".  The checker's integers are 32-bit signed, so the largest value
\* of the model's extent type stands for the largest uint32_t.
UINT32_MAX == 2147483647

Slots == 0 .. (MAX_FRAMES_IN_FLIGHT - 1)

Extent(w, h) == [width |-> w, height |-> h]

\* Framebuffer sizes the window system can report: minimized, the creation
\* size, and one other size.
WindowSizes == {Extent(0, 0), Extent(WIDTH, HEIGHT), Extent(640, 480)}

\* VkResult values the frame loop distinguishes; VK_ERROR_DEVICE_LOST stands
\* for every result that is neither success nor staleness.
AcquireResults ==
  {"VK_SUCCESS", "VK_SUBOPTIMAL_KHR", "VK_ERROR_OUT_OF_DATE_KHR",
   "VK_ERROR_DEVICE_LOST"}

\* VkSurfaceFormatKHR values: the pair CreateSwapchain prefers, and others.
SurfaceFormat(f, c) == [format |-> f, colorSpace |-> c]
SurfaceFormats ==
  { SurfaceFormat(f, c) :
      f \in {"VK_FORMAT_B8G8R8A8_SRGB", "VK_FORMAT_R8G8B8A8_UNORM"},
      c \in {"VK_COLOR_SPACE_SRGB_NONLINEAR_KHR",
             "VK_COLOR_SPACE_HDR10_ST2084_EXT"} }

\* VkPresentModeKHR values.
PresentModes ==
  {"VK_PRESENT_MODE_IMMEDIATE_KHR", "VK_PRESENT_MODE_MAILBOX_KHR",
   "VK_PRESENT_MODE_FIFO_KHR"}

\* Longest format list and longest present-mode list a surface offers.
MaxFormats == 3
MaxPresentModes == 3
MaxImages == 4

\* The sequences over S of length at most n.
SeqsUpTo(S, n) == UNION { [1 .. k -> S] : k \in 0 .. n }

\* details.formats: vkGetPhysicalDeviceSurfaceFormatsKHR offers at least one
\* format on a device CreateSwapchain is run for.
FormatLists == SeqsUpTo(SurfaceFormats, MaxFormats) \ { << >> }

\* details.presentModes
PresentModeLists == SeqsUpTo(PresentModes, MaxPresentModes)

\* SwapchainSupportDetails as queried for the surface: the capabilities, the
\* formats and the present modes.  `fixed` says whether
\* currentExtent is a real extent (then it is the live window size) or the
\* special value UINT32_MAX; `extraImages` is how many images the driver
\* creates beyond the requested minimum.
SurfaceKinds ==
  { [fixed |-> TRUE, minImageCount |-> 2, maxImageCount |-> 2,
     minImageExtent |-> Extent(1, 1), maxImageExtent |-> Extent(4096, 4096),
     extraImages |-> 0,
     formats |-> << SurfaceFormat("VK_FORMAT_R8G8B8A8_UNORM",
                                  "VK_COLOR_SPACE_SRGB_NONLINEAR_KHR"),
                    SurfaceFormat("VK_FORMAT_B8G8R8A8_SRGB",
                                  "VK_COLOR_SPACE_SRGB_NONLINEAR_KHR") >>,
     presentModes |-> << "VK_PRESENT_MODE_FIFO_KHR" >>],
    [fixed |-> FALSE, minImageCount |-> 1, maxImageCount |-> 0,
     minImageExtent |-> Extent(1, 1), maxImageExtent |-> Extent(4096, 4096),
     extraImages |-> 1,
     formats |-> << SurfaceFormat("VK_FORMAT_R8G8B8A8_UNORM",
                                  "VK_COLOR_SPACE_SRGB_NONLINEAR_KHR") >>,
     presentModes |-> << "VK_PRESENT_MODE_FIFO_KHR",
                         "VK_PRESENT_MODE_MAILBOX_KHR" >>] }

\* ------------------------------------------------------------------ state
VARIABLES
  pc,                    \* position of the control thread
  rcRet,                 \* where RecreateSwapchain returns to
  exitStatus,            \* "running", "EXIT_SUCCESS" or "EXIT_FAILURE"
  currentFrame,          \* static uint32_t currentFrame of DrawFrame
  framebufferResized,    \* App::framebufferResized
  inFlightFences,        \* slot -> signaled?
  commandBuffers,        \* slot -> what is recorded in it
  imageAvailableSemaphores, \* slot -> signaled, or a signal is pending?
  renderFinishedSemaphores, \* slot -> signaled, or a signal is pending?
  presentsPending,       \* slots whose render-finished semaphore has a
                         \* presentation's wait enqueued and not yet executed
  createInfo,            \* the VkSwapchainCreateInfoKHR CreateSwapchain built
  swapchain,             \* the object App::swapchain names: "none" before
                         \* the first creation, then "live" or "destroyed"
  swapchainExtent,       \* App::swapchainExtent
  swapchainImages,       \* size of App::swapchainImages
  swapchainImageViews,   \* [n, state]: n handles, and what they name
  swapchainFramebuffers, \* [n, state]: n handles, and what they name
  imageIndex,            \* local of DrawFrame
  res,                   \* local of DrawFrame
  width, height,         \* locals of RecreateSwapchain
  gpuQueue,              \* submissions not yet finished, oldest first
  liveObjects,           \* other device objects that exist
  winSize,               \* what glfwGetFramebufferSize returns now
  events,                \* window events queued, not yet processed
  shouldClose,           \* glfwWindowShouldClose
  caps,                  \* the surface's capabilities
  hist                   \* observations of the run (not program state)

vars ==
  << pc, rcRet, exitStatus, currentFrame, framebufferResized, inFlightFences,
     commandBuffers, imageAvailableSemaphores, renderFinishedSemaphores,
     presentsPending, createInfo, swapchain, swapchainExtent, swapchainImages,
     swapchainImageViews, swapchainFramebuffers, imageIndex, res, width,
     height, gpuQueue, liveObjects, winSize, events, shouldClose, caps, hist >>

semVars ==
  << imageAvailableSemaphores, renderFinishedSemaphores, presentsPending >>
appVars ==
  << currentFrame, framebufferResized, inFlightFences, commandBuffers,
     semVars >>
swapVars ==
  << swapchain, swapchainExtent, swapchainImages, swapchainImageViews,
     swapchainFramebuffers, createInfo >>
localVars == << imageIndex, res, width, height, rcRet >>
envVars == << winSize, events, shouldClose, caps >>

\* Objects Cleanup destroys one by one, besides the swapchain state.
SlotObjects == {"fences", "semaphores", "commandPool"}
OtherObjects ==
  {"imgui", "descriptorPool", "vertexBuffer", "pipeline", "renderPass",
   "device", "window"}

InitHist ==
  [ entryFrame |-> 0,          \* currentFrame when the last DrawFrame began
    outcome |-> "none",        \* how the last DrawFrame ended
    pendingRebuild |-> FALSE,  \* present said suboptimal, no rebuild yet
    lastSubmitDone |-> TRUE,   \* the latest submission has finished
    finalIdleDone |-> FALSE,   \* MainLoop's last vkDeviceWaitIdle returned
    doubleDestroy |-> FALSE,   \* a handle was destroyed twice
    cleanupLog |-> << >>,      \* what Cleanup destroyed, in order
    sizeAtCall |-> Extent(0, 0),   \* size reported as RecreateSwapchain began
    sizeAtCreate |-> Extent(0, 0), \* winSize when the swapchain was created
    rebuilt |-> FALSE,         \* RecreateSwapchain has completed before
    sameSize |-> FALSE,        \* this rebuild saw the size the one before saw
    sameResult |-> FALSE,      \* ... and gave the same extent and count
    presentedEarly |-> FALSE,  \* a presentation's wait was over while the
                               \* rendering of its frame was unfinished
    thrower |-> "none",        \* the call whose failure raised the exception
    acquiredSuboptimal |-> FALSE, \* the latest acquire said suboptimal, and
                               \* there was no rebuild since
    flagAtPresent |-> FALSE,   \* framebufferResized as the present test read it
    held |-> 0,                \* images acquired and not yet handed to
                               \* vkQueuePresentKHR
    presented |-> 0,           \* DrawFrames that returned after presenting,
                               \* counted modulo MAX_FRAMES_IN_FLIGHT
    episode |-> "none" ]       \* minimize/restore episode of the window:
                               \* "minimized", "restored" when the size comes
                               \* back while RecreateSwapchain waits for it,
                               \* then "rebuilt" after one rebuild and "twice"
                               \* after two

\* ------------------------------------------------------------------ helpers
IsZero(e) == e.width = 0 \/ e.height = 0

Clamp(v, lo, hi) == IF v < lo THEN lo ELSE IF hi < v THEN hi ELSE v

\* capabilities.currentExtent as vkGetPhysicalDeviceSurfaceCapabilitiesKHR
\* fills it in for a window of pixel size `size`.
CurrentExtent(c, size) ==
  IF c.fixed THEN size ELSE Extent(UINT32_MAX, UINT32_MAX)

\* Extent selection that clamps the surface's own extent too.
ChooseSwapExtent_ClampsAlways(c, size) ==
  Extent(Clamp(IF c.fixed THEN CurrentExtent(c, size).width ELSE size.width,
               c.minImageExtent.width, c.maxImageExtent.width),
         Clamp(IF c.fixed THEN CurrentExtent(c, size).height ELSE size.height,
               c.minImageExtent.height, c.maxImageExtent.height))

ChooseSwapExtent(c, size) ==
  IF CurrentExtent(c, size).width # UINT32_MAX
    THEN CurrentExtent(c, size)
    ELSE Extent(Clamp(size.width, c.minImageExtent.width,
                      c.maxImageExtent.width),
                Clamp(size.height, c.minImageExtent.height,
                      c.maxImageExtent.height))

\* ChooseSwapSurfaceFormat: the loop over availableFormats from index i on,
\* then availableFormats[0].
RECURSIVE ChooseSwapSurfaceFormatFrom(_, _)
ChooseSwapSurfaceFormatFrom(availableFormats, i) ==
  IF i > Len(availableFormats)
    THEN availableFormats[1]
    ELSE IF /\ availableFormats[i].format = "VK_FORMAT_B8G8R8A8_SRGB"
            /\ availableFormats[i].colorSpace =
                 "VK_COLOR_SPACE_SRGB_NONLINEAR_KHR"
      THEN availableFormats[i]
      ELSE ChooseSwapSurfaceFormatFrom(availableFormats, i + 1)

\* Format selection that compares the format and not the colour space.
ChooseSwapSurfaceFormat_FormatOnly(availableFormats) ==
  LET hits == { i \in 1 .. Len(availableFormats) :
                  availableFormats[i].format = "VK_FORMAT_B8G8R8A8_SRGB" }
  IN  IF hits = {}
        THEN availableFormats[1]
        ELSE availableFormats[CHOOSE i \in hits : \A j \in hits : i <= j]

ChooseSwapSurfaceFormat(availableFormats) ==
  ChooseSwapSurfaceFormatFrom(availableFormats, 1)

\* ChooseSwapPresentMode: the loop over availablePresentModes from index i
\* on, then VK_PRESENT_MODE_FIFO_KHR.
RECURSIVE ChooseSwapPresentModeFrom(_, _)
ChooseSwapPresentModeFrom(availablePresentModes, i) ==
  IF i > Len(availablePresentModes)
    THEN "VK_PRESENT_MODE_FIFO_KHR"
    ELSE IF availablePresentModes[i] = "VK_PRESENT_MODE_MAILBOX_KHR"
      THEN availablePresentModes[i]
      ELSE ChooseSwapPresentModeFrom(availablePresentModes, i + 1)

\* Present-mode selection that takes the first mode offered.
ChooseSwapPresentMode_First(availablePresentModes) ==
  IF availablePresentModes = << >>
    THEN "VK_PRESENT_MODE_FIFO_KHR"
    ELSE availablePresentModes[1]

ChooseSwapPresentMode(availablePresentModes) ==
  ChooseSwapPresentModeFrom(availablePresentModes, 1)

\* An image count that is never capped.
RequestedImageCount_Uncapped(c) == c.minImageCount + 1

\* createInfo.minImageCount of CreateSwapchain.
RequestedImageCount(c) ==
  IF c.maxImageCount > 0 /\ c.minImageCount + 1 > c.maxImageCount
    THEN c.maxImageCount
    ELSE c.minImageCount + 1

\* The count vkGetSwapchainImagesKHR reports for the new swapchain.
ImageCount(c) == RequestedImageCount(c) + c.extraImages

\* VkSwapchainCreateInfoKHR createInfo = {}
NoCreateInfo ==
  [ minImageCount |-> 0, imageFormat |-> "VK_FORMAT_UNDEFINED",
    imageColorSpace |-> "VK_COLOR_SPACE_SRGB_NONLINEAR_KHR",
    imageExtent |-> Extent(0, 0),
    presentMode |-> "VK_PRESENT_MODE_IMMEDIATE_KHR" ]

\* The createInfo CreateSwapchain fills in for support details c and a window
\* of pixel size `size`.
SwapchainCreateInfo(c, size) ==
  [ minImageCount |-> RequestedImageCount(c),
    imageFormat |-> ChooseSwapSurfaceFormat(c.formats).format,
    imageColorSpace |-> ChooseSwapSurfaceFormat(c.formats).colorSpace,
    imageExtent |-> ChooseSwapExtent(c, size),
    presentMode |-> ChooseSwapPresentMode(c.presentModes) ]

\* Is a submission of slot s unfinished?
SlotBusy(s) == \E i \in 1 .. Len(gpuQueue) : gpuQueue[i].slot = s

\* The unfinished submissions, the framebuffers they draw into destroyed.
FramebuffersGone(q) == [i \in 1 .. Len(q) |-> [q[i] EXCEPT !.fbLive = FALSE]]

\* ------------------------------------------------------------------ Init
Init ==
  /\ pc = "Run"
  /\ rcRet = "none"
  /\ exitStatus = "running"
  /\ currentFrame = 0
  /\ framebufferResized = FALSE
  /\ inFlightFences = [s \in Slots |-> FALSE]
  /\ commandBuffers = [s \in Slots |-> "initial"]
  /\ imageAvailableSemaphores = [s \in Slots |-> FALSE]
  /\ renderFinishedSemaphores = [s \in Slots |-> FALSE]
  /\ presentsPending = {}
  /\ createInfo = NoCreateInfo
  /\ swapchain = "none"
  /\ swapchainExtent = Extent(0, 0)
  /\ swapchainImages = 0
  /\ swapchainImageViews = [n |-> 0, state |-> "none"]
  /\ swapchainFramebuffers = [n |-> 0, state |-> "none"]
  /\ imageIndex = 0
  /\ res = "VK_SUCCESS"
  /\ width = 0
  /\ height = 0
  /\ gpuQueue = << >>
  /\ liveObjects = {}
  /\ winSize = Extent(WIDTH, HEIGHT)
  /\ events = {}
  /\ shouldClose = FALSE
  /\ caps \in SurfaceKinds
  /\ hist = InitHist

\* ------------------------------------------------------------------ swapchain
\* CreateSwapchain taking the extent from the size RecreateSwapchain's loop
\* read, not from a fresh query.
CreateSwapchain_LoopSize ==
  /\ swapchain' = "live"
  /\ swapchainImages' = ImageCount(caps)
  /\ swapchainExtent' =
       ChooseSwapExtent(caps, IF pc = "Run" THEN winSize
                              ELSE Extent(width, height))
  /\ createInfo' = SwapchainCreateInfo(caps, winSize)

\* CreateSwapchain growing the image list instead of resizing it.
CreateSwapchain_Grows ==
  /\ swapchain' = "live"
  /\ swapchainImages' = swapchainImages + ImageCount(caps)
  /\ swapchainExtent' = ChooseSwapExtent(caps, winSize)
  /\ createInfo' = SwapchainCreateInfo(caps, winSize)

\* CreateSwapchain: the new swapchain, its image list and the chosen extent.
CreateSwapchain ==
  /\ createInfo' = SwapchainCreateInfo(caps, winSize)
  /\ swapchain' = "live"
  /\ swapchainImages' = ImageCount(caps)
  /\ swapchainExtent' = createInfo'.imageExtent

\* CreateImageViews: one view per image.
CreateImageViews(n) ==
  swapchainImageViews' = [n |-> n, state |-> "live"]

\* CreateFramebuffers making one framebuffer per frame slot.
CreateFramebuffers_PerSlot(views) ==
  swapchainFramebuffers' = [n |-> MAX_FRAMES_IN_FLIGHT, state |-> "live"]

\* CreateFramebuffers: one framebuffer per image view.
CreateFramebuffers(views) ==
  swapchainFramebuffers' = [n |-> views.n, state |-> "live"]

\* CleanupSwapchain: destroys whatever the three members name.
CleanupSwapchain ==
  /\ swapchainFramebuffers' = [swapchainFramebuffers EXCEPT !.state = "destroyed"]
  /\ swapchainImageViews' = [swapchainImageViews EXCEPT !.state = "destroyed"]
  /\ swapchain' = "destroyed"
  /\ gpuQueue' = FramebuffersGone(gpuQueue)
  /\ UNCHANGED << swapchainExtent, swapchainImages, createInfo >>

\* CleanupSwapchain is handed a handle it has destroyed before.
DestroysDead ==
  \/ swapchainFramebuffers.state = "destroyed"
  \/ swapchainImageViews.state = "destroyed"
  \/ swapchain = "destroyed"

\* ------------------------------------------------------------------ setup
\* Setup creating the slots' fences without VK_FENCE_CREATE_SIGNALED_BIT.
Run_Init_Unsignaled ==
  /\ pc = "Run"
  /\ pc' = "MainLoop"
  /\ CreateSwapchain
  /\ CreateImageViews(swapchainImages')
  /\ CreateFramebuffers(swapchainImageViews')
  /\ commandBuffers' = [s \in Slots |-> "initial"]
  /\ imageAvailableSemaphores' = [s \in Slots |-> FALSE]
  /\ renderFinishedSemaphores' = [s \in Slots |-> FALSE]
  /\ presentsPending' = {}
  /\ inFlightFences' = [s \in Slots |-> FALSE]
  /\ liveObjects' = SlotObjects \cup OtherObjects
  /\ hist' = [hist EXCEPT !.sizeAtCreate = winSize]
  /\ UNCHANGED << rcRet, exitStatus, currentFrame, framebufferResized,
                  imageIndex, res, width, height, gpuQueue, envVars >>

\* Run up to MainLoop: InitWindow, InitVulkan (with CreateSwapchain,
\* CreateImageViews, CreateFramebuffers, CreateCommandBuffers and
\* CreateSyncObjects) and SetupImGui succeed.
Run_Init ==
  /\ pc = "Run"
  /\ pc' = "MainLoop"
  /\ CreateSwapchain
  /\ CreateImageViews(swapchainImages')
  /\ CreateFramebuffers(swapchainImageViews')
  /\ commandBuffers' = [s \in Slots |-> "initial"]
  /\ imageAvailableSemaphores' = [s \in Slots |-> FALSE]
  /\ renderFinishedSemaphores' = [s \in Slots |-> FALSE]
  /\ presentsPending' = {}
  /\ inFlightFences' = [s \in Slots |-> TRUE]
  /\ liveObjects' = SlotObjects \cup OtherObjects
  /\ hist' = [hist EXCEPT !.sizeAtCreate = winSize]
  /\ UNCHANGED << rcRet, exitStatus, currentFrame, framebufferResized,
                  imageIndex, res, width, height, gpuQueue, envVars >>

\* What exists when Run throws during set-up: nothing (glfwInit or
\* glfwCreateWindow failed), the window (InitVulkan failed before the device
\* was created), window and device (CreateSwapchain threw), or everything
\* but the overlay and its descriptor pool (SetupImGui threw).
InitFailures ==
  { {}, {"window"}, {"window", "device"},
    (SlotObjects \cup OtherObjects) \ {"imgui", "descriptorPool"} }

\* InitWindow, InitVulkan or SetupImGui throws: Run is left with what was
\* created so far, the other members as the constructor left them.
Run_InitThrows ==
  /\ pc = "Run"
  /\ pc' = "catch"
  /\ \E created \in InitFailures :
       /\ liveObjects' = created
       /\ IF "fences" \in created
            THEN /\ CreateSwapchain
                 /\ CreateImageViews(swapchainImages')
                 /\ CreateFramebuffers(swapchainImageViews')
                 /\ inFlightFences' = [s \in Slots |-> TRUE]
                 /\ hist' = [hist EXCEPT !.thrower = "init",
                                         !.sizeAtCreate = winSize]
            ELSE /\ UNCHANGED << swapVars, inFlightFences >>
                 /\ hist' = [hist EXCEPT !.thrower = "init"]
  /\ UNCHANGED << rcRet, exitStatus, currentFrame, framebufferResized,
                  commandBuffers, semVars, imageIndex, res, width, height,
                  gpuQueue, envVars >>

\* ------------------------------------------------------------------ events
\* What glfwPollEvents / glfwWaitEvents do with the queued events: the resize
\* callback sets the flag, a close request sets should-close.
DeliverEvents ==
  /\ framebufferResized' = (framebufferResized \/ "resize" \in events)
  /\ shouldClose' = (shouldClose \/ "close" \in events)
  /\ events' = {}

LoopPcs ==
  {"MainLoop", "poll", "DrawFrame", "acquire", "reset_fence", "record",
   "submit", "present", "advance", "rc_getsize", "rc_loop_get", "rc_wait",
   "rc_idle", "rc_cleanup", "rc_createSwapchain", "rc_createImageViews",
   "rc_createFramebuffers", "rc_return"}

\* A resize whose callback runs at once, on the window system's side,
\* instead of inside the control thread's next event call.
WindowResize_AsyncCallback ==
  /\ pc \in LoopPcs
  /\ \E s \in WindowSizes \ {winSize} :
       /\ winSize' = s
       /\ hist' = [hist EXCEPT
            !.episode = IF IsZero(s) THEN "minimized"
                        ELSE IF @ = "minimized" /\ pc \in {"rc_loop_get", "rc_wait"}
                          THEN "restored"
                        ELSE "none"]
  /\ framebufferResized' = TRUE
  /\ UNCHANGED << pc, exitStatus, currentFrame, inFlightFences,
                  commandBuffers, semVars, swapVars, localVars, gpuQueue,
                  liveObjects, events, shouldClose, caps >>

\* A submission that finishes without signalling its fence.
GpuFinish_NoFence ==
  /\ gpuQueue # << >>
  /\ "device" \in liveObjects
  /\ gpuQueue' = Tail(gpuQueue)
  /\ hist' = [hist EXCEPT !.lastSubmitDone = (@ \/ Len(gpuQueue) = 1)]
  /\ UNCHANGED << pc, exitStatus, currentFrame, framebufferResized,
                  inFlightFences, commandBuffers, semVars, swapVars,
                  localVars, liveObjects, envVars >>

\* The window system changes the framebuffer size and queues the notification.
WindowResize ==
  /\ pc \in LoopPcs
  /\ \E s \in WindowSizes \ {winSize} :
       /\ winSize' = s
       /\ hist' = [hist EXCEPT
            !.episode = IF IsZero(s) THEN "minimized"
                        ELSE IF @ = "minimized" /\ pc \in {"rc_loop_get", "rc_wait"}
                          THEN "restored"
                        ELSE "none"]
  /\ events' = events \cup {"resize"}
  /\ UNCHANGED << pc, exitStatus, appVars, swapVars, localVars, gpuQueue,
                  liveObjects, shouldClose, caps >>

\* The user asks to close the window.
UserClose ==
  /\ pc \in LoopPcs
  /\ ~shouldClose
  /\ "close" \notin events
  /\ events' = events \cup {"close"}
  /\ UNCHANGED << pc, exitStatus, appVars, swapVars, localVars, gpuQueue,
                  liveObjects, winSize, shouldClose, caps, hist >>

\* ------------------------------------------------------------------ GPU
\* The oldest unfinished submission finishes: its fence is signaled.
GpuFinish ==
  /\ gpuQueue # << >>
  /\ "device" \in liveObjects
  /\ gpuQueue' = Tail(gpuQueue)
  /\ inFlightFences' = [inFlightFences EXCEPT ![Head(gpuQueue).fence] = TRUE]
  /\ hist' = [hist EXCEPT !.lastSubmitDone = (@ \/ Len(gpuQueue) = 1)]
  /\ UNCHANGED << pc, exitStatus, currentFrame, framebufferResized,
                  commandBuffers, semVars, swapVars, localVars, liveObjects,
                  envVars >>

\* The presentation engine executes an enqueued presentation's wait on a
\* render-finished semaphore, once no unfinished submission is still to
\* signal that semaphore.
PresentEngineWaitOn(s) ==
  /\ "device" \in liveObjects
  /\ s \in presentsPending
  /\ \A i \in 1 .. Len(gpuQueue) : gpuQueue[i].signalSemaphore # s
  /\ presentsPending' = presentsPending \ {s}
  /\ hist' = [hist EXCEPT !.presentedEarly = (@ \/ SlotBusy(s))]
  /\ UNCHANGED << pc, exitStatus, currentFrame, framebufferResized,
                  inFlightFences, commandBuffers, imageAvailableSemaphores,
                  renderFinishedSemaphores, swapVars, localVars, gpuQueue,
                  liveObjects, envVars >>

PresentEngineWait == \E s \in Slots : PresentEngineWaitOn(s)

\* ------------------------------------------------------------------ MainLoop
\* while (!glfwWindowShouldClose(window))
MainLoop_Test ==
  /\ pc = "MainLoop"
  /\ pc' = IF shouldClose THEN "MainLoop_idle" ELSE "poll"
  /\ UNCHANGED << exitStatus, appVars, swapVars, localVars, gpuQueue,
                  liveObjects, envVars, hist >>

\* glfwPollEvents()
MainLoop_PollEvents ==
  /\ pc = "poll"
  /\ pc' = "DrawFrame"
  /\ DeliverEvents
  /\ UNCHANGED << exitStatus, currentFrame, inFlightFences, commandBuffers,
                  semVars, swapVars, localVars, gpuQueue, liveObjects,
                  winSize, caps, hist >>

\* vkDeviceWaitIdle(device) after the loop, then MainLoop and Run return.
MainLoop_DeviceWaitIdle ==
  /\ pc = "MainLoop_idle"
  /\ gpuQueue = << >>
  /\ presentsPending = {}
  /\ pc' = "main_return"
  /\ hist' = [hist EXCEPT !.finalIdleDone = TRUE]
  /\ UNCHANGED << exitStatus, appVars, swapVars, localVars, gpuQueue,
                  liveObjects, envVars >>

\* ------------------------------------------------------------------ DrawFrame
StaleResults == {"VK_ERROR_OUT_OF_DATE_KHR", "VK_SUBOPTIMAL_KHR"}

\* The driver reported staleness: a rebuild that follows a rebuild is then the
\* driver's doing, and the minimize/restore episode is over.
EpisodeAfter(r) ==
  IF r \in StaleResults /\ hist.episode \in {"rebuilt", "twice"}
    THEN "none" ELSE hist.episode

\* Entry of RecreateSwapchain, called from DrawFrame with return point ret.
CallRecreateSwapchain(ret) ==
  /\ pc' = "rc_getsize"
  /\ rcRet' = ret

\* DrawFrame without the wait on the slot's fence.
DrawFrame_WaitForFences_NoWait ==
  /\ pc = "DrawFrame"
  /\ pc' = "acquire"
  /\ hist' = [hist EXCEPT !.entryFrame = currentFrame, !.outcome = "none"]
  /\ UNCHANGED << exitStatus, appVars, swapVars, localVars, gpuQueue,
                  liveObjects, envVars >>

\* DrawFrame waiting for the fences of all the slots.
DrawFrame_WaitForFences_AllSlots ==
  /\ pc = "DrawFrame"
  /\ \A s \in Slots : inFlightFences[s]
  /\ pc' = "acquire"
  /\ hist' = [hist EXCEPT !.entryFrame = currentFrame, !.outcome = "none"]
  /\ UNCHANGED << exitStatus, appVars, swapVars, localVars, gpuQueue,
                  liveObjects, envVars >>

\* vkWaitForFences on the active slot's fence.
DrawFrame_WaitForFences ==
  /\ pc = "DrawFrame"
  /\ inFlightFences[currentFrame]
  /\ pc' = "acquire"
  /\ hist' = [hist EXCEPT !.entryFrame = currentFrame, !.outcome = "none"]
  /\ UNCHANGED << exitStatus, appVars, swapVars, localVars, gpuQueue,
                  liveObjects, envVars >>

\* vkAcquireNextImageKHR returns VK_SUCCESS or VK_SUBOPTIMAL_KHR.
DrawFrame_Acquire ==
  /\ pc = "acquire"
  /\ \E r \in {"VK_SUCCESS", "VK_SUBOPTIMAL_KHR"} :
       /\ res' = r
       /\ hist' = [hist EXCEPT
            !.episode = EpisodeAfter(r),
            !.acquiredSuboptimal = (r = "VK_SUBOPTIMAL_KHR"),
            !.held = IF @ < MAX_FRAMES_IN_FLIGHT THEN @ + 1 ELSE @]
  /\ \E i \in 0 .. (swapchainImages - 1) : imageIndex' = i
  /\ imageAvailableSemaphores' =
       [imageAvailableSemaphores EXCEPT ![currentFrame] = TRUE]
  /\ pc' = "reset_fence"
  /\ UNCHANGED << exitStatus, currentFrame, framebufferResized,
                  inFlightFences, commandBuffers, renderFinishedSemaphores,
                  presentsPending, swapVars, width, height, rcRet, gpuQueue,
                  liveObjects, envVars >>

\* The out-of-date path of a DrawFrame that resets the fence before it
\* acquires.
DrawFrame_AcquireOutOfDate_FenceReset ==
  /\ pc = "acquire"
  /\ res' = "VK_ERROR_OUT_OF_DATE_KHR"
  /\ inFlightFences' = [inFlightFences EXCEPT ![currentFrame] = FALSE]
  /\ CallRecreateSwapchain("abort")
  /\ hist' = [hist EXCEPT !.episode = EpisodeAfter("VK_ERROR_OUT_OF_DATE_KHR")]
  /\ UNCHANGED << exitStatus, currentFrame, framebufferResized,
                  commandBuffers, semVars, swapVars, imageIndex, width,
                  height, gpuQueue, liveObjects, envVars >>

\* An out-of-date acquire after which the command buffer is still recorded.
DrawFrame_AcquireOutOfDate_Records ==
  /\ pc = "acquire"
  /\ res' = "VK_ERROR_OUT_OF_DATE_KHR"
  /\ commandBuffers' = [commandBuffers EXCEPT ![currentFrame] = "recorded"]
  /\ CallRecreateSwapchain("abort")
  /\ hist' = [hist EXCEPT !.episode = EpisodeAfter("VK_ERROR_OUT_OF_DATE_KHR")]
  /\ UNCHANGED << exitStatus, currentFrame, framebufferResized,
                  inFlightFences, semVars, swapVars, imageIndex, width,
                  height, gpuQueue, liveObjects, envVars >>

\* A suboptimal acquire, which hands out an image, treated as out-of-date.
DrawFrame_AcquireOutOfDate_HoldsImage ==
  /\ pc = "acquire"
  /\ res' = "VK_SUBOPTIMAL_KHR"
  /\ CallRecreateSwapchain("abort")
  /\ hist' = [hist EXCEPT
       !.episode = EpisodeAfter("VK_SUBOPTIMAL_KHR"),
       !.held = IF @ < MAX_FRAMES_IN_FLIGHT THEN @ + 1 ELSE @]
  /\ UNCHANGED << exitStatus, appVars, swapVars, imageIndex, width, height,
                  gpuQueue, liveObjects, envVars >>

\* An out-of-date acquire treated like any other failed acquire.
DrawFrame_AcquireOutOfDate_Throws ==
  /\ pc = "acquire"
  /\ res' = "VK_ERROR_OUT_OF_DATE_KHR"
  /\ pc' = "catch"
  /\ hist' = [hist EXCEPT !.thrower = "acquire"]
  /\ UNCHANGED << exitStatus, appVars, swapVars, imageIndex, width, height,
                  rcRet, gpuQueue, liveObjects, envVars >>

\* vkAcquireNextImageKHR returns VK_ERROR_OUT_OF_DATE_KHR:
\* RecreateSwapchain(); return;
DrawFrame_AcquireOutOfDate ==
  /\ pc = "acquire"
  /\ res' = "VK_ERROR_OUT_OF_DATE_KHR"
  /\ CallRecreateSwapchain("abort")
  /\ hist' = [hist EXCEPT !.episode = EpisodeAfter("VK_ERROR_OUT_OF_DATE_KHR")]
  /\ UNCHANGED << exitStatus, appVars, swapVars, imageIndex, width, height,
                  gpuQueue, liveObjects, envVars >>

\* vkAcquireNextImageKHR returns any other result: throw.
DrawFrame_AcquireThrows ==
  /\ pc = "acquire"
  /\ res' = "VK_ERROR_DEVICE_LOST"
  /\ pc' = "catch"
  /\ hist' = [hist EXCEPT !.thrower = "acquire"]
  /\ UNCHANGED << exitStatus, appVars, swapVars, imageIndex, width, height,
                  rcRet, gpuQueue, liveObjects, envVars >>

\* vkResetFences on the active slot's fence.
DrawFrame_ResetFences ==
  /\ pc = "reset_fence"
  /\ inFlightFences' = [inFlightFences EXCEPT ![currentFrame] = FALSE]
  /\ pc' = "record"
  /\ UNCHANGED << exitStatus, currentFrame, framebufferResized,
                  commandBuffers, semVars, swapVars, localVars, gpuQueue,
                  liveObjects, envVars, hist >>

\* vkResetCommandBuffer and RecordCommandBuffer: the slot's command buffer
\* now draws into swapchainFramebuffers[imageIndex].
DrawFrame_Record ==
  /\ pc = "record"
  /\ commandBuffers' =
       [commandBuffers EXCEPT ![currentFrame] = "recorded"]
  /\ pc' = "submit"
  /\ UNCHANGED << exitStatus, currentFrame, framebufferResized,
                  inFlightFences, semVars, swapVars, localVars, gpuQueue,
                  liveObjects, envVars, hist >>

\* RecordCommandBuffer throws (vkBeginCommandBuffer / vkEndCommandBuffer).
DrawFrame_RecordThrows ==
  /\ pc = "record"
  /\ commandBuffers' = [commandBuffers EXCEPT ![currentFrame] = "invalid"]
  /\ pc' = "catch"
  /\ hist' = [hist EXCEPT !.thrower = "record"]
  /\ UNCHANGED << exitStatus, currentFrame, framebufferResized,
                  inFlightFences, semVars, swapVars, localVars, gpuQueue,
                  liveObjects, envVars >>

\* A submission that signals the other slot's render-finished semaphore.
DrawFrame_Submit_OtherSemaphore ==
  /\ pc = "submit"
  /\ gpuQueue' =
       Append(gpuQueue, [slot |-> currentFrame,
                         fbLive |-> swapchainFramebuffers.state = "live",
                         waitSemaphore |-> currentFrame,
                         signalSemaphore |->
                           (currentFrame + 1) % MAX_FRAMES_IN_FLIGHT,
                         fence |-> currentFrame])
  /\ imageAvailableSemaphores' =
       [imageAvailableSemaphores EXCEPT ![currentFrame] = FALSE]
  /\ renderFinishedSemaphores' =
       [renderFinishedSemaphores EXCEPT
          ![(currentFrame + 1) % MAX_FRAMES_IN_FLIGHT] = TRUE]
  /\ pc' = "present"
  /\ hist' = [hist EXCEPT !.lastSubmitDone = FALSE]
  /\ UNCHANGED << exitStatus, currentFrame, framebufferResized,
                  inFlightFences, commandBuffers, presentsPending, swapVars,
                  localVars, liveObjects, envVars >>

\* vkQueueSubmit succeeds: the GPU will wait for the slot's image-available
\* semaphore, run the slot's command buffer, and signal the slot's
\* render-finished semaphore and fence.
DrawFrame_Submit ==
  /\ pc = "submit"
  /\ gpuQueue' =
       Append(gpuQueue, [slot |-> currentFrame,
                         fbLive |-> swapchainFramebuffers.state = "live",
                         waitSemaphore |-> currentFrame,
                         signalSemaphore |-> currentFrame,
                         fence |-> currentFrame])
  /\ imageAvailableSemaphores' =
       [imageAvailableSemaphores EXCEPT ![currentFrame] = FALSE]
  /\ renderFinishedSemaphores' =
       [renderFinishedSemaphores EXCEPT ![currentFrame] = TRUE]
  /\ pc' = "present"
  /\ hist' = [hist EXCEPT !.lastSubmitDone = FALSE]
  /\ UNCHANGED << exitStatus, currentFrame, framebufferResized,
                  inFlightFences, commandBuffers, presentsPending, swapVars,
                  localVars, liveObjects, envVars >>

\* vkQueueSubmit fails: throw.
DrawFrame_SubmitThrows ==
  /\ pc = "submit"
  /\ pc' = "catch"
  /\ hist' = [hist EXCEPT !.thrower = "submit"]
  /\ UNCHANGED << exitStatus, appVars, swapVars, localVars, gpuQueue,
                  liveObjects, envVars >>

\* The test after vkQueuePresentKHR without the framebufferResized operand.
PresentNeedsRecreate_ResultOnly(r, resized) ==
  r = "VK_ERROR_OUT_OF_DATE_KHR" \/ r = "VK_SUBOPTIMAL_KHR"

\* The test after vkQueuePresentKHR that sends DrawFrame to RecreateSwapchain.
PresentNeedsRecreate(r, resized) ==
  r = "VK_ERROR_OUT_OF_DATE_KHR" \/ r = "VK_SUBOPTIMAL_KHR" \/ resized

\* The presentation request with result r is enqueued, and with it the wait
\* for the slot's render-finished semaphore, unless the device is lost.
PresentWaits(r) ==
  /\ renderFinishedSemaphores' =
       [renderFinishedSemaphores EXCEPT
          ![currentFrame] = (@ /\ r = "VK_ERROR_DEVICE_LOST")]
  /\ presentsPending' =
       IF r = "VK_ERROR_DEVICE_LOST"
         THEN presentsPending
         ELSE presentsPending \cup {currentFrame}

\* vkQueuePresentKHR, then: framebufferResized = false; RecreateSwapchain();
DrawFrame_PresentRecreate ==
  /\ pc = "present"
  /\ \E r \in AcquireResults :
       /\ PresentNeedsRecreate(r, framebufferResized)
       /\ res' = r
       /\ PresentWaits(r)
       /\ hist' = [hist EXCEPT !.episode = EpisodeAfter(r),
                               !.pendingRebuild = (r = "VK_SUBOPTIMAL_KHR"),
                               !.flagAtPresent = framebufferResized,
                               !.held = IF @ > 0 THEN @ - 1 ELSE 0]
  /\ framebufferResized' = FALSE
  /\ CallRecreateSwapchain("advance")
  /\ UNCHANGED << exitStatus, currentFrame, inFlightFences, commandBuffers,
                  imageAvailableSemaphores, swapVars, imageIndex, width,
                  height, gpuQueue, liveObjects, envVars >>

\* vkQueuePresentKHR returns an error that is not staleness: throw.
DrawFrame_PresentThrows ==
  /\ pc = "present"
  /\ \E r \in AcquireResults :
       /\ ~PresentNeedsRecreate(r, framebufferResized)
       /\ r # "VK_SUCCESS"
       /\ res' = r
       /\ PresentWaits(r)
  /\ pc' = "catch"
  /\ hist' = [hist EXCEPT !.thrower = "present",
                          !.flagAtPresent = framebufferResized,
                          !.held = IF @ > 0 THEN @ - 1 ELSE 0]
  /\ UNCHANGED << exitStatus, currentFrame, framebufferResized,
                  inFlightFences, commandBuffers, imageAvailableSemaphores,
                  swapVars, imageIndex, width, height, rcRet, gpuQueue,
                  liveObjects, envVars >>

\* vkQueuePresentKHR succeeds and nothing asks for a rebuild.
DrawFrame_Present ==
  /\ pc = "present"
  /\ ~PresentNeedsRecreate("VK_SUCCESS", framebufferResized)
  /\ res' = "VK_SUCCESS"
  /\ PresentWaits("VK_SUCCESS")
  /\ pc' = "advance"
  /\ hist' = [hist EXCEPT !.flagAtPresent = framebufferResized,
                          !.held = IF @ > 0 THEN @ - 1 ELSE 0]
  /\ UNCHANGED << exitStatus, currentFrame, framebufferResized,
                  inFlightFences, commandBuffers, imageAvailableSemaphores,
                  swapVars, imageIndex, width, height, rcRet, gpuQueue,
                  liveObjects, envVars >>

\* DrawFrame returning after presentation with the frame counter as it was.
DrawFrame_Advance_Stays ==
  /\ \/ pc = "advance"
     \/ pc = "rc_return" /\ rcRet = "advance"
  /\ pc' = "MainLoop"
  /\ rcRet' = "none"
  /\ imageIndex' = 0
  /\ res' = "VK_SUCCESS"
  /\ hist' = [hist EXCEPT
       !.outcome = "presented", !.sameSize = FALSE, !.sameResult = FALSE,
       !.sizeAtCall = Extent(0, 0), !.flagAtPresent = FALSE,
       !.presented = (@ + 1) % MAX_FRAMES_IN_FLIGHT]
  /\ UNCHANGED << exitStatus, appVars, swapVars, width, height, gpuQueue,
                  liveObjects, envVars >>

\* currentFrame = (currentFrame + 1) % MAX_FRAMES_IN_FLIGHT, and return.
DrawFrame_Advance ==
  /\ \/ pc = "advance"
     \/ pc = "rc_return" /\ rcRet = "advance"
  /\ currentFrame' = (currentFrame + 1) % MAX_FRAMES_IN_FLIGHT
  /\ pc' = "MainLoop"
  /\ rcRet' = "none"
  /\ imageIndex' = 0
  /\ res' = "VK_SUCCESS"
  /\ hist' = [hist EXCEPT
       !.outcome = "presented", !.sameSize = FALSE, !.sameResult = FALSE,
       !.sizeAtCall = Extent(0, 0), !.flagAtPresent = FALSE,
       !.presented = (@ + 1) % MAX_FRAMES_IN_FLIGHT]
  /\ UNCHANGED << exitStatus, framebufferResized, inFlightFences,
                  commandBuffers, semVars, swapVars, width, height, gpuQueue,
                  liveObjects, envVars >>

\* The return after RecreateSwapchain on the acquire path.
DrawFrame_ReturnAborted ==
  /\ pc = "rc_return"
  /\ rcRet = "abort"
  /\ pc' = "MainLoop"
  /\ rcRet' = "none"
  /\ res' = "VK_SUCCESS"
  /\ hist' = [hist EXCEPT !.outcome = "aborted", !.sameSize = FALSE,
                          !.sameResult = FALSE, !.sizeAtCall = Extent(0, 0)]
  /\ UNCHANGED << exitStatus, appVars, swapVars, imageIndex, width, height,
                  gpuQueue, liveObjects, envVars >>

\* ------------------------------------------------------------------ RecreateSwapchain
\* RecreateSwapchain without the loop that waits for a non-zero size.
RecreateSwapchain_GetSize_NoLoop ==
  /\ pc = "rc_getsize"
  /\ width' = winSize.width
  /\ height' = winSize.height
  /\ pc' = "rc_idle"
  /\ hist' = [hist EXCEPT !.sizeAtCall = winSize]
  /\ UNCHANGED << exitStatus, appVars, swapVars, imageIndex, res, rcRet,
                  gpuQueue, liveObjects, envVars >>

\* int width = 0, height = 0; glfwGetFramebufferSize(...); and the first test
\* of while (width == 0 || height == 0).
RecreateSwapchain_GetSize ==
  /\ pc = "rc_getsize"
  /\ width' = winSize.width
  /\ height' = winSize.height
  /\ pc' = IF winSize.width = 0 \/ winSize.height = 0
             THEN "rc_loop_get" ELSE "rc_idle"
  /\ hist' = [hist EXCEPT !.sizeAtCall = winSize]
  /\ UNCHANGED << exitStatus, appVars, swapVars, imageIndex, res, rcRet,
                  gpuQueue, liveObjects, envVars >>

\* Loop body, first statement: glfwGetFramebufferSize.
RecreateSwapchain_LoopGetSize ==
  /\ pc = "rc_loop_get"
  /\ width' = winSize.width
  /\ height' = winSize.height
  /\ pc' = "rc_wait"
  /\ UNCHANGED << exitStatus, appVars, swapVars, imageIndex, res, rcRet,
                  gpuQueue, liveObjects, envVars, hist >>

\* Loop body, second statement: glfwWaitEvents blocks until an event arrives
\* (a queued one, or an input event that concerns nothing else here) and
\* processes what is queued; then the loop condition is tested on the size
\* read before the wait.
RecreateSwapchain_WaitEvents ==
  /\ pc = "rc_wait"
  /\ DeliverEvents
  /\ pc' = IF width = 0 \/ height = 0 THEN "rc_loop_get" ELSE "rc_idle"
  /\ UNCHANGED << exitStatus, currentFrame, inFlightFences, commandBuffers,
                  semVars, swapVars, localVars, gpuQueue, liveObjects,
                  winSize, caps, hist >>

\* RecreateSwapchain without vkDeviceWaitIdle.
RecreateSwapchain_DeviceWaitIdle_NoWait ==
  /\ pc = "rc_idle"
  /\ pc' = "rc_cleanup"
  /\ UNCHANGED << exitStatus, appVars, swapVars, localVars, gpuQueue,
                  liveObjects, envVars, hist >>

\* RecreateSwapchain waiting for the active slot's submission only.
RecreateSwapchain_DeviceWaitIdle_ActiveSlot ==
  /\ pc = "rc_idle"
  /\ ~SlotBusy(currentFrame)
  /\ pc' = "rc_cleanup"
  /\ UNCHANGED << exitStatus, appVars, swapVars, localVars, gpuQueue,
                  liveObjects, envVars, hist >>

\* vkDeviceWaitIdle(device): returns when no queue operation is unfinished.
RecreateSwapchain_DeviceWaitIdle ==
  /\ pc = "rc_idle"
  /\ gpuQueue = << >>
  /\ presentsPending = {}
  /\ pc' = "rc_cleanup"
  /\ UNCHANGED << exitStatus, appVars, swapVars, localVars, gpuQueue,
                  liveObjects, envVars, hist >>

\* A rebuild that also resets the slots' command buffers.
RecreateSwapchain_Cleanup_ResetsSlots ==
  /\ pc = "rc_cleanup"
  /\ CleanupSwapchain
  /\ commandBuffers' = [s \in Slots |-> "initial"]
  /\ pc' = "rc_createSwapchain"
  /\ hist' = [hist EXCEPT !.doubleDestroy = (@ \/ DestroysDead)]
  /\ UNCHANGED << exitStatus, currentFrame, framebufferResized,
                  inFlightFences, semVars, localVars, liveObjects, envVars >>

\* CleanupSwapchain()
RecreateSwapchain_Cleanup ==
  /\ pc = "rc_cleanup"
  /\ CleanupSwapchain
  /\ pc' = "rc_createSwapchain"
  /\ hist' = [hist EXCEPT !.doubleDestroy = (@ \/ DestroysDead)]
  /\ UNCHANGED << exitStatus, appVars, localVars, liveObjects, envVars >>

\* CreateSwapchain()
RecreateSwapchain_CreateSwapchain ==
  /\ pc = "rc_createSwapchain"
  /\ CreateSwapchain
  /\ pc' = "rc_createImageViews"
  /\ hist' = [hist EXCEPT
       !.pendingRebuild = FALSE,
       !.acquiredSuboptimal = FALSE,
       !.sizeAtCreate = winSize,
       !.sameSize = (hist.rebuilt /\ winSize = hist.sizeAtCreate),
       !.sameResult = /\ swapchainExtent' = swapchainExtent
                      /\ swapchainImages' = swapchainImages,
       !.episode = IF @ = "restored" THEN "rebuilt"
                   ELSE IF @ = "rebuilt" THEN "twice" ELSE @]
  /\ UNCHANGED << exitStatus, appVars, swapchainImageViews,
                  swapchainFramebuffers, localVars, gpuQueue, liveObjects,
                  envVars >>

\* vkCreateSwapchainKHR fails inside RecreateSwapchain: throw.
RecreateSwapchain_CreateSwapchainThrows ==
  /\ pc = "rc_createSwapchain"
  /\ pc' = "catch"
  /\ hist' = [hist EXCEPT !.thrower = "createSwapchain"]
  /\ UNCHANGED << exitStatus, appVars, swapVars, localVars, gpuQueue,
                  liveObjects, envVars >>

\* CreateImageViews()
RecreateSwapchain_CreateImageViews ==
  /\ pc = "rc_createImageViews"
  /\ CreateImageViews(swapchainImages)
  /\ pc' = "rc_createFramebuffers"
  /\ UNCHANGED << exitStatus, appVars, swapchain, swapchainExtent,
                  swapchainImages, swapchainFramebuffers, createInfo,
                  localVars, gpuQueue, liveObjects, envVars, hist >>

\* CreateFramebuffers(), and RecreateSwapchain returns.
RecreateSwapchain_CreateFramebuffers ==
  /\ pc = "rc_createFramebuffers"
  /\ CreateFramebuffers(swapchainImageViews)
  /\ pc' = "rc_return"
  /\ width' = 0
  /\ height' = 0
  /\ hist' = [hist EXCEPT !.rebuilt = TRUE]
  /\ UNCHANGED << exitStatus, appVars, swapchain, swapchainExtent,
                  swapchainImages, swapchainImageViews, createInfo,
                  imageIndex, res, rcRet, gpuQueue, liveObjects, envVars >>

\* ------------------------------------------------------------------ main
\* main after Run returned: log, return EXIT_SUCCESS; ~App calls Cleanup.
Main_Return ==
  /\ pc = "main_return"
  /\ exitStatus' = "EXIT_SUCCESS"
  /\ pc' = "Cleanup"
  /\ UNCHANGED << appVars, swapVars, localVars, gpuQueue, liveObjects,
                  envVars, hist >>

\* main's catch block: log, return EXIT_FAILURE; ~App calls Cleanup.
Main_Catch ==
  /\ pc = "catch"
  /\ exitStatus' = "EXIT_FAILURE"
  /\ pc' = "Cleanup"
  /\ UNCHANGED << appVars, swapVars, localVars, gpuQueue, liveObjects,
                  envVars, hist >>

\* ------------------------------------------------------------------ Cleanup
\* One step of Cleanup: at position `at`, destroy `objs`, go to `next`.
CleanupStep(at, objs, name, next) ==
  /\ pc = at
  /\ liveObjects' = liveObjects \ objs
  /\ pc' = next
  /\ hist' = [hist EXCEPT !.cleanupLog = Append(@, name)]
  /\ UNCHANGED << exitStatus, appVars, swapVars, localVars, gpuQueue,
                  envVars >>

\* CleanupSwapchain()
Cleanup_Swapchain ==
  /\ pc = "Cleanup"
  /\ CleanupSwapchain
  /\ pc' = "cl_imgui"
  /\ hist' = [hist EXCEPT !.doubleDestroy = (@ \/ DestroysDead),
                          !.cleanupLog = Append(@, "swapchain")]
  /\ UNCHANGED << exitStatus, appVars, localVars, liveObjects, envVars >>

\* ImGui_ImplVulkan_Shutdown, ImGui_ImplGlfw_Shutdown, DestroyContext
Cleanup_ImGui == CleanupStep("cl_imgui", {"imgui"}, "imgui", "cl_waitFences")

\* vkWaitForFences on all the slots' fences, with no timeout.  When the
\* fences were never created the call is handed no valid fence: it may
\* return, or not.
Cleanup_WaitForFences ==
  /\ pc = "cl_waitFences"
  /\ "fences" \notin liveObjects \/ \A s \in Slots : inFlightFences[s]
  /\ pc' = "cl_descriptorPool"
  /\ UNCHANGED << exitStatus, appVars, swapVars, localVars, gpuQueue,
                  liveObjects, envVars, hist >>

Cleanup_DescriptorPool ==
  CleanupStep("cl_descriptorPool", {"descriptorPool"}, "descriptorPool",
              "cl_vertexBuffer")

\* vkDestroyBuffer(vertexBuffer), vkFreeMemory(vertexBufferMemory)
Cleanup_VertexBuffer ==
  CleanupStep("cl_vertexBuffer", {"vertexBuffer"}, "vertexBuffer",
              "cl_commandPool")

\* vkDestroyCommandPool frees the slots' command buffers.
Cleanup_CommandPool ==
  CleanupStep("cl_commandPool", {"commandPool"}, "commandPool", "cl_pipeline")

Cleanup_Pipeline ==
  CleanupStep("cl_pipeline", {"pipeline", "renderPass"}, "pipeline",
              "cl_syncObjects")

\* The loop destroying the slots' semaphores and fences.
Cleanup_SyncObjects ==
  CleanupStep("cl_syncObjects", {"semaphores", "fences"}, "syncObjects",
              "cl_device")

\* vkDestroyDevice ... glfwDestroyWindow, glfwTerminate
Cleanup_Device ==
  CleanupStep("cl_device", {"device", "window"}, "device", "done")

\* ------------------------------------------------------------------ Next
Next ==
  \/ Run_Init
  \/ Run_InitThrows
  \/ WindowResize
  \/ UserClose
  \/ GpuFinish
  \/ PresentEngineWait
  \/ MainLoop_Test
  \/ MainLoop_PollEvents
  \/ MainLoop_DeviceWaitIdle
  \/ DrawFrame_WaitForFences
  \/ DrawFrame_Acquire
  \/ DrawFrame_AcquireOutOfDate
  \/ DrawFrame_AcquireThrows
  \/ DrawFrame_ResetFences
  \/ DrawFrame_Record
  \/ DrawFrame_RecordThrows
  \/ DrawFrame_Submit
  \/ DrawFrame_SubmitThrows
  \/ DrawFrame_PresentRecreate
  \/ DrawFrame_PresentThrows
  \/ DrawFrame_Present
  \/ DrawFrame_Advance
  \/ DrawFrame_ReturnAborted
  \/ RecreateSwapchain_GetSize
  \/ RecreateSwapchain_LoopGetSize
  \/ RecreateSwapchain_WaitEvents
  \/ RecreateSwapchain_DeviceWaitIdle
  \/ RecreateSwapchain_Cleanup
  \/ RecreateSwapchain_CreateSwapchain
  \/ RecreateSwapchain_CreateSwapchainThrows
  \/ RecreateSwapchain_CreateImageViews
  \/ RecreateSwapchain_CreateFramebuffers
  \/ Main_Return
  \/ Main_Catch
  \/ Cleanup_Swapchain
  \/ Cleanup_ImGui
  \/ Cleanup_WaitForFences
  \/ Cleanup_DescriptorPool
  \/ Cleanup_VertexBuffer
  \/ Cleanup_CommandPool
  \/ Cleanup_Pipeline
  \/ Cleanup_SyncObjects
  \/ Cleanup_Device

Spec == Init /\ [][Next]_vars

\* ---------------------------------------------------------------- steady state
\* The frame loop when the window is neither resized nor closed and every
\* Vulkan call returns VK_SUCCESS.
DrawFrame_AcquireSuccess == DrawFrame_Acquire /\ res' = "VK_SUCCESS"

\* One step of the control thread in the steady state.
SteadyControl ==
  \/ Run_Init
  \/ MainLoop_Test
  \/ MainLoop_PollEvents
  \/ DrawFrame_WaitForFences
  \/ DrawFrame_AcquireSuccess
  \/ DrawFrame_ResetFences
  \/ DrawFrame_Record
  \/ DrawFrame_Submit
  \/ DrawFrame_Present
  \/ DrawFrame_Advance

NextSteady ==
  \/ SteadyControl
  \/ GpuFinish
  \/ PresentEngineWait

\* The control thread keeps running; the GPU finishes the submission at the
\* head of the queue; the presentation engine executes each enqueued
\* presentation whose render-finished semaphore keeps being signaled.
SteadyFairness ==
  /\ WF_vars(SteadyControl)
  /\ WF_vars(GpuFinish)
  /\ \A s \in Slots : SF_vars(PresentEngineWaitOn(s))

SpecSteady == Init /\ [][NextSteady]_vars /\ SteadyFairness

\* ---------------------------------------------------------------- no fatal error
\* One step of the control thread when no call fails fatally: staleness,
\* rebuilds, the close request and the teardown after it are all possible,
\* the throws are not.
LiveControl ==
  \/ Run_Init
  \/ MainLoop_Test
  \/ MainLoop_PollEvents
  \/ MainLoop_DeviceWaitIdle
  \/ DrawFrame_WaitForFences
  \/ DrawFrame_Acquire
  \/ DrawFrame_AcquireOutOfDate
  \/ DrawFrame_ResetFences
  \/ DrawFrame_Record
  \/ DrawFrame_Submit
  \/ DrawFrame_PresentRecreate
  \/ DrawFrame_Present
  \/ DrawFrame_Advance
  \/ DrawFrame_ReturnAborted
  \/ RecreateSwapchain_GetSize
  \/ RecreateSwapchain_LoopGetSize
  \/ RecreateSwapchain_WaitEvents
  \/ RecreateSwapchain_DeviceWaitIdle
  \/ RecreateSwapchain_Cleanup
  \/ RecreateSwapchain_CreateSwapchain
  \/ RecreateSwapchain_CreateImageViews
  \/ RecreateSwapchain_CreateFramebuffers
  \/ Main_Return
  \/ Cleanup_Swapchain
  \/ Cleanup_ImGui
  \/ Cleanup_WaitForFences
  \/ Cleanup_DescriptorPool
  \/ Cleanup_VertexBuffer
  \/ Cleanup_CommandPool
  \/ Cleanup_Pipeline
  \/ Cleanup_SyncObjects
  \/ Cleanup_Device

\* The window is minimized and restored to its first size; the surface is
\* one whose current extent follows the window.
WindowMinimizeRestore ==
  WindowResize /\ winSize' \in {Extent(0, 0), Extent(WIDTH, HEIGHT)}

InitLive == Init /\ caps.fixed

NextLive ==
  \/ LiveControl
  \/ WindowMinimizeRestore
  \/ UserClose
  \/ GpuFinish
  \/ PresentEngineWait

\* The control thread keeps running, the GPU finishes the submission at the
\* head of the queue, the presentation engine executes each enqueued
\* presentation; the window system and the user are under no obligation.
LiveFairness ==
  /\ WF_vars(LiveControl)
  /\ WF_vars(GpuFinish)
  /\ \A s \in Slots : SF_vars(PresentEngineWaitOn(s))

SpecLive == InitLive /\ [][NextLive]_vars /\ LiveFairness

\* ------------------------------------------------------------------ CreateSwapchain, call by call
\* CreateSwapchain run once, for every support details QuerySwapchainSupport
\* can return: the calls it makes before vkCreateSwapchainKHR, one at a time.
\* [minImageExtent, maxImageExtent] pairs a surface can report: one that
\* holds every window size, one above the smaller sizes, one below every
\* non-zero size, and one that cuts the width only from above and the height
\* only from below.
ExtentBounds ==
  { << Extent(1, 1), Extent(4096, 4096) >>,
    << Extent(700, 500), Extent(1024, 768) >>,
    << Extent(1, 1), Extent(320, 240) >>,
    << Extent(1, 500), Extent(700, 4096) >> }

\* capabilities.minImageCount and maxImageCount: at least one image, and a
\* maximum of 0 (no limit) or not below the minimum.
ImageCountBounds ==
  { b \in (1 .. MaxImages) \X (0 .. MaxImages) : b[2] = 0 \/ b[1] <= b[2] }

SupportDetails ==
  { [k EXCEPT !.formats = f, !.presentModes = m] :
      k \in SurfaceKinds, f \in FormatLists, m \in PresentModeLists }
  \cup
  { [k EXCEPT !.minImageExtent = b[1], !.maxImageExtent = b[2]] :
      k \in SurfaceKinds, b \in ExtentBounds }
  \cup
  { [k EXCEPT !.minImageCount = b[1], !.maxImageCount = b[2]] :
      k \in SurfaceKinds, b \in ImageCountBounds }

InitChoose ==
  /\ pc = "cs_format"
  /\ caps \in SupportDetails
  /\ rcRet = "none"
  /\ exitStatus = "running"
  /\ currentFrame = 0
  /\ framebufferResized = FALSE
  /\ inFlightFences = [s \in Slots |-> FALSE]
  /\ commandBuffers = [s \in Slots |-> "initial"]
  /\ imageAvailableSemaphores = [s \in Slots |-> FALSE]
  /\ renderFinishedSemaphores = [s \in Slots |-> FALSE]
  /\ presentsPending = {}
  /\ createInfo = NoCreateInfo
  /\ swapchain = "none"
  /\ swapchainExtent = Extent(0, 0)
  /\ swapchainImages = 0
  /\ swapchainImageViews = [n |-> 0, state |-> "none"]
  /\ swapchainFramebuffers = [n |-> 0, state |-> "none"]
  /\ imageIndex = 0
  /\ res = "VK_SUCCESS"
  /\ width = 0
  /\ height = 0
  /\ gpuQueue = << >>
  /\ liveObjects = {}
  /\ winSize \in WindowSizes
  /\ events = {}
  /\ shouldClose = FALSE
  /\ hist = InitHist

\* What no call of CreateSwapchain before vkCreateSwapchainKHR touches.
chooseFrame ==
  << rcRet, exitStatus, appVars, swapchain, swapchainExtent, swapchainImages,
     swapchainImageViews, swapchainFramebuffers, imageIndex, res, width,
     height, gpuQueue, liveObjects, envVars, hist >>

\* surfaceFormat = ChooseSwapSurfaceFormat(swapChainSupport.formats)
CreateSwapchain_ChooseFormat ==
  /\ pc = "cs_format"
  /\ createInfo' =
       [createInfo EXCEPT
          !.imageFormat = ChooseSwapSurfaceFormat(caps.formats).format,
          !.imageColorSpace = ChooseSwapSurfaceFormat(caps.formats).colorSpace]
  /\ pc' = "cs_presentMode"
  /\ UNCHANGED chooseFrame

\* presentMode = ChooseSwapPresentMode(swapChainSupport.presentModes)
CreateSwapchain_ChoosePresentMode ==
  /\ pc = "cs_presentMode"
  /\ createInfo' =
       [createInfo EXCEPT
          !.presentMode = ChooseSwapPresentMode(caps.presentModes)]
  /\ pc' = "cs_extent"
  /\ UNCHANGED chooseFrame

\* extent = ChooseSwapExtent(swapChainSupport.capabilities)
CreateSwapchain_ChooseExtent ==
  /\ pc = "cs_extent"
  /\ createInfo' =
       [createInfo EXCEPT !.imageExtent = ChooseSwapExtent(caps, winSize)]
  /\ pc' = "cs_imageCount"
  /\ UNCHANGED chooseFrame

\* imageCount = minImageCount + 1, capped by maxImageCount
CreateSwapchain_ImageCount ==
  /\ pc = "cs_imageCount"
  /\ createInfo' =
       [createInfo EXCEPT !.minImageCount = RequestedImageCount(caps)]
  /\ pc' = "cs_done"
  /\ UNCHANGED chooseFrame

NextChoose ==
  \/ CreateSwapchain_ChooseFormat
  \/ CreateSwapchain_ChoosePresentMode
  \/ CreateSwapchain_ChooseExtent
  \/ CreateSwapchain_ImageCount

SpecChoose == InitChoose /\ [][NextChoose]_vars

\* ------------------------------------------------------------------ claims
InBounds(e) ==
  /\ caps.minImageExtent.width <= e.width
  /\ e.width <= caps.maxImageExtent.width
  /\ caps.minImageExtent.height <= e.height
  /\ e.height <= caps.maxImageExtent.height

ClampedIntoBounds(e) ==
  Extent(IF e.width < caps.minImageExtent.width
           THEN caps.minImageExtent.width
           ELSE IF e.width > caps.maxImageExtent.width
             THEN caps.maxImageExtent.width ELSE e.width,
         IF e.height < caps.minImageExtent.height
           THEN caps.minImageExtent.height
           ELSE IF e.height > caps.maxImageExtent.height
             THEN caps.maxImageExtent.height ELSE e.height)

\* C1: at most MAX_FRAMES_IN_FLIGHT submissions are unfinished at any time,
\* and no slot has two unfinished submissions.
C1_InFlightBound ==
  /\ Len(gpuQueue) <= MAX_FRAMES_IN_FLIGHT
  /\ \A i, j \in 1 .. Len(gpuQueue) :
       gpuQueue[i].slot = gpuQueue[j].slot => i = j

\* The bound is attained: every slot has an unfinished submission.
C1_Witness ==
  /\ Len(gpuQueue) = MAX_FRAMES_IN_FLIGHT
  /\ \A s \in Slots : SlotBusy(s)

\* C2: while DrawFrame resets and records the active slot's command buffer,
\* and until it submits it, no earlier submission of that slot is unfinished.
C2_NoRecordWhileBusy ==
  pc \in {"record", "submit"} => ~SlotBusy(currentFrame)

\* DrawFrame is about to re-record a command buffer that was submitted
\* before, while the other slot's submission is still unfinished.
C2_Witness ==
  /\ pc = "record"
  /\ commandBuffers[currentFrame] = "recorded"
  /\ gpuQueue # << >>

\* C3: in and after a DrawFrame whose acquisition reported out-of-date, the
\* frame counter has the value it had when that DrawFrame began and the
\* active slot's fence is signaled (so the next wait on it returns).
C3_OutOfDateKeepsSlot ==
  (rcRet = "abort" \/ hist.outcome = "aborted") =>
    /\ currentFrame = hist.entryFrame
    /\ inFlightFences[currentFrame]

\* The DrawFrame after an aborted one is at its fence wait, after earlier
\* frames have used the slot.
C3_Witness ==
  /\ pc = "DrawFrame"
  /\ hist.outcome = "aborted"
  /\ commandBuffers[currentFrame] = "recorded"

\* C4: after present returned suboptimal, no DrawFrame reaches acquisition
\* before the swapchain is rebuilt, and when that rebuild destroys the old
\* swapchain state the frame's submission has finished on the GPU, with its
\* framebuffer intact until then.
C4_SuboptimalRebuild ==
  /\ pc \in {"MainLoop", "poll", "DrawFrame", "acquire"} =>
       ~hist.pendingRebuild
  /\ ( /\ rcRet = "advance"
       /\ res = "VK_SUBOPTIMAL_KHR"
       /\ pc \in {"rc_cleanup", "rc_createSwapchain", "rc_createImageViews",
                  "rc_createFramebuffers", "rc_return"} ) =>
       /\ hist.lastSubmitDone
       /\ \A i \in 1 .. Len(gpuQueue) : gpuQueue[i].fbLive

\* The rebuild after a suboptimal present has completed.
C4_Witness ==
  /\ pc = "rc_return"
  /\ rcRet = "advance"
  /\ res = "VK_SUBOPTIMAL_KHR"
  /\ ~hist.pendingRebuild
  /\ hist.lastSubmitDone

\* C5 (as stated): when the window is minimized and restored while
\* RecreateSwapchain waits for a non-zero size (no other resize follows, and
\* the driver reports no staleness once the swapchain is rebuilt), the
\* swapchain is rebuilt once, not twice.
C5_RebuiltOnce == hist.episode # "twice"

\* C6 (as stated): when RecreateSwapchain has returned on a surface with no
\* fixed extent, the swapchain extent is the window size reported when
\* RecreateSwapchain was called.
C6_ExtentIsSizeAtCall ==
  (pc = "rc_return" /\ ~caps.fixed) => swapchainExtent = hist.sizeAtCall

\* C6 (amended): when RecreateSwapchain has returned on a surface with no
\* fixed extent, the swapchain extent is the window size at the moment
\* CreateSwapchain queried it, clamped into the surface's extent bounds; it is
\* the size reported at the call if the window had that size at both moments
\* and the size lies within the bounds.
C6_ExtentIsSizeAtCreate ==
  (pc = "rc_return" /\ ~caps.fixed) =>
    /\ swapchainExtent = ClampedIntoBounds(hist.sizeAtCreate)
    /\ (hist.sizeAtCreate = hist.sizeAtCall /\ InBounds(hist.sizeAtCall)) =>
         swapchainExtent = hist.sizeAtCall

\* RecreateSwapchain was called with the window minimized and returned with
\* the swapchain at the restored size.
C6_Witness ==
  /\ pc = "rc_return"
  /\ ~caps.fixed
  /\ IsZero(hist.sizeAtCall)
  /\ swapchainExtent = Extent(640, 480)
  /\ winSize = Extent(640, 480)

C8_RecreateOrder ==
  /\ pc \in {"rc_getsize", "rc_loop_get", "rc_wait", "rc_idle", "rc_cleanup"}
       => /\ swapchain = "live"
          /\ swapchainImageViews.state = "live"
          /\ swapchainFramebuffers.state = "live"
  /\ pc \in {"rc_idle", "rc_cleanup", "rc_createSwapchain",
             "rc_createImageViews", "rc_createFramebuffers"}
       => width # 0 /\ height # 0
  /\ pc \in {"rc_cleanup", "rc_createSwapchain", "rc_createImageViews",
             "rc_createFramebuffers"}
       => gpuQueue = << >>
  /\ pc = "rc_createSwapchain"
       => /\ swapchain = "destroyed"
          /\ swapchainImageViews.state = "destroyed"
          /\ swapchainFramebuffers.state = "destroyed"
  /\ pc = "rc_createImageViews"
       => /\ swapchain = "live"
          /\ swapchainImageViews.state = "destroyed"
          /\ swapchainFramebuffers.state = "destroyed"
  /\ pc = "rc_createFramebuffers"
       => /\ swapchain = "live"
          /\ swapchainImageViews.state = "live"
          /\ swapchainFramebuffers.state = "destroyed"

\* A RecreateSwapchain that was called with the window minimized, after work
\* was submitted, is about to create the framebuffers.
C8_Witness ==
  /\ pc = "rc_createFramebuffers"
  /\ IsZero(hist.sizeAtCall)
  /\ commandBuffers[hist.entryFrame] = "recorded"

\* C9 (as stated): Cleanup destroys nothing before MainLoop's device-idle
\* wait has returned, and it destroys the swapchain state first, then the
\* frame slots, then the vertex buffer.
C9_ShutdownOrder ==
  hist.cleanupLog # << >> =>
    /\ hist.finalIdleDone
    /\ SlotObjects \cap liveObjects # SlotObjects => swapchain = "destroyed"
    /\ "vertexBuffer" \notin liveObjects => SlotObjects \cap liveObjects = {}

\* C10 (as stated): no unfinished submission has lost its framebuffer (and
\* with it the image view and the swapchain image), its fence, its semaphores
\* or its command buffer.
C10_NoDestroyInUse ==
  \A i \in 1 .. Len(gpuQueue) :
    /\ gpuQueue[i].fbLive
    /\ SlotObjects \subseteq liveObjects

\* Positions of RecreateSwapchain before its return.
RecreatePcs ==
  {"rc_getsize", "rc_loop_get", "rc_wait", "rc_idle", "rc_cleanup",
   "rc_createSwapchain", "rc_createImageViews", "rc_createFramebuffers"}

\* Positions from main's catch block to the end of the teardown.
TeardownPcs ==
  {"catch", "Cleanup", "cl_imgui", "cl_waitFences", "cl_descriptorPool",
   "cl_vertexBuffer", "cl_commandPool", "cl_pipeline", "cl_syncObjects",
   "cl_device", "done"}

\* The result DrawFrame holds is staleness the claims C13 speaks of: an
\* out-of-date acquire, or an out-of-date or suboptimal present.
StalenessReported ==
  \/ res = "VK_ERROR_OUT_OF_DATE_KHR"
  \/ res = "VK_SUBOPTIMAL_KHR" /\ rcRet = "advance"

\* C11 (as stated): whenever acquire or present has returned an error that is
\* not staleness, DrawFrame has thrown: control is in main's catch block or in
\* the teardown after it, whatever framebufferResized was.
C11_ErrorsAlwaysFatal ==
  res = "VK_ERROR_DEVICE_LOST" => pc \in TeardownPcs

\* C12 (as stated): the teardown after a fatal error is never stuck: when
\* Cleanup waits for the slots' fences, every fence is signaled or has an
\* unfinished submission that will signal it.
C12_TeardownCompletes ==
  (exitStatus = "EXIT_FAILURE" /\ pc = "cl_waitFences"
     /\ "fences" \in liveObjects) =>
    \A s \in Slots : inFlightFences[s] \/ SlotBusy(s)

C14_AcquireSuboptimalRebuilds ==
  pc = "acquire" => ~hist.acquiredSuboptimal

\* C15: after vkQueuePresentKHR, DrawFrame enters RecreateSwapchain exactly
\* when the result was out-of-date or suboptimal or framebufferResized was
\* set, and then framebufferResized is clear; otherwise it goes on to the
\* counter advance (result success) or throws (any other result).
C15_RebuildIff ==
  /\ (pc = "rc_getsize" /\ rcRet = "advance") =>
       /\ res \in StaleResults \/ hist.flagAtPresent
       /\ ~framebufferResized
  /\ pc = "advance" =>
       /\ res = "VK_SUCCESS"
       /\ ~hist.flagAtPresent
       /\ ~framebufferResized
  /\ (pc = "catch" /\ hist.thrower = "present") =>
       /\ res \notin StaleResults
       /\ ~hist.flagAtPresent

\* Present succeeded with framebufferResized set: the rebuild begins, the flag
\* cleared.
C15_Witness ==
  /\ pc = "rc_getsize"
  /\ rcRet = "advance"
  /\ res = "VK_SUCCESS"
  /\ hist.flagAtPresent
  /\ ~framebufferResized

\* C16: no step of RecreateSwapchain changes the frame counter, the slots'
\* fences, semaphores or command buffers, or the set of other device objects
\* (command pool, pipeline, render pass, device, window and surface).
C16_RebuildFrame ==
  [][ (pc \in RecreatePcs /\ pc' # pc) =>
        UNCHANGED << currentFrame, inFlightFences, commandBuffers, semVars,
                     liveObjects >> ]_vars

\* A rebuild has completed after both slots were used, with every device
\* object still there.
C16_Witness ==
  /\ pc = "rc_return"
  /\ rcRet = "advance"
  /\ \A s \in Slots : commandBuffers[s] = "recorded"
  /\ liveObjects = SlotObjects \cup OtherObjects
  /\ currentFrame = 1

\* C17: the frame counter is a slot index and equals the number of DrawFrames
\* that returned after presenting, modulo MAX_FRAMES_IN_FLIGHT; it changes
\* only when such a DrawFrame returns, by one modulo MAX_FRAMES_IN_FLIGHT, and
\* a DrawFrame aborted at acquisition returns with it unchanged.
C17_FrameCounter ==
  /\ [](currentFrame \in Slots /\ currentFrame = hist.presented)
  /\ [][ /\ currentFrame' # currentFrame =>
              \/ pc = "advance"
              \/ pc = "rc_return" /\ rcRet = "advance"
         /\ (pc \in {"advance", "rc_return"} /\ pc' = "MainLoop") =>
              currentFrame' =
                IF pc = "advance" \/ rcRet = "advance"
                  THEN (currentFrame + 1) % MAX_FRAMES_IN_FLIGHT
                  ELSE currentFrame ]_vars

\* The counter has wrapped around: both slots were used and the last
\* DrawFrame, which rebuilt the swapchain, returned with the counter at 0.
C17_Witness ==
  /\ pc = "MainLoop"
  /\ currentFrame = 0
  /\ hist.outcome = "presented"
  /\ hist.rebuilt
  /\ \A s \in Slots : commandBuffers[s] = "recorded"

\* C18: there are exactly MAX_FRAMES_IN_FLIGHT slots, each with a fence, two
\* semaphores and a command buffer; a slot no DrawFrame has used yet has its
\* fence signaled and its semaphores unsignaled, so the first wait on its
\* fence returns.
C18_SlotCreation ==
  /\ Cardinality(Slots) = MAX_FRAMES_IN_FLIGHT
  /\ DOMAIN inFlightFences = Slots
  /\ DOMAIN imageAvailableSemaphores = Slots
  /\ DOMAIN renderFinishedSemaphores = Slots
  /\ DOMAIN commandBuffers = Slots
  /\ \A s \in Slots :
       ( /\ pc \in LoopPcs
         /\ commandBuffers[s] = "initial"
         /\ s # currentFrame \/ pc \in {"MainLoop", "poll", "DrawFrame"} ) =>
         /\ inFlightFences[s]
         /\ ~imageAvailableSemaphores[s]
         /\ ~renderFinishedSemaphores[s]

\* The first DrawFrame on the second slot is at its fence wait while the
\* first slot's submission is unfinished.
C18_Witness ==
  /\ pc = "DrawFrame"
  /\ currentFrame = 1
  /\ commandBuffers[1] = "initial"
  /\ SlotBusy(0)

\* The pair ChooseSwapSurfaceFormat prefers.
PreferredFormat ==
  SurfaceFormat("VK_FORMAT_B8G8R8A8_SRGB", "VK_COLOR_SPACE_SRGB_NONLINEAR_KHR")

\* The surface format CreateSwapchain put into createInfo.
ChosenFormat ==
  SurfaceFormat(createInfo.imageFormat, createInfo.imageColorSpace)

Offered(list) == { list[i] : i \in 1 .. Len(list) }

\* C19: once CreateSwapchain has chosen the surface format from a non-empty
\* list, the choice is a member of the list; it is the preferred pair
\* (B8G8R8A8_SRGB, SRGB_NONLINEAR) if the list has it, at whatever position,
\* and the first format of the list otherwise.
C19_FormatSelection ==
  pc \in {"cs_presentMode", "cs_extent", "cs_imageCount", "cs_done"} =>
    /\ ChosenFormat \in Offered(caps.formats)
    /\ ChosenFormat =
         IF PreferredFormat \in Offered(caps.formats)
           THEN PreferredFormat
           ELSE caps.formats[1]

\* The preferred pair was offered last, after a format that shares only its
\* format and one that shares only its colour space, and it was chosen.
C19_Witness ==
  /\ pc = "cs_done"
  /\ caps.formats =
       << SurfaceFormat("VK_FORMAT_B8G8R8A8_SRGB",
                        "VK_COLOR_SPACE_HDR10_ST2084_EXT"),
          SurfaceFormat("VK_FORMAT_R8G8B8A8_UNORM",
                        "VK_COLOR_SPACE_SRGB_NONLINEAR_KHR"),
          PreferredFormat >>
  /\ ChosenFormat = PreferredFormat

\* C20: once CreateSwapchain has chosen the present mode, the choice is
\* MAILBOX if MAILBOX is in the list offered and FIFO if not (also when the
\* list is empty or does not have FIFO).
C20_PresentModeSelection ==
  pc \in {"cs_extent", "cs_imageCount", "cs_done"} =>
    createInfo.presentMode =
      IF "VK_PRESENT_MODE_MAILBOX_KHR" \in Offered(caps.presentModes)
        THEN "VK_PRESENT_MODE_MAILBOX_KHR"
        ELSE "VK_PRESENT_MODE_FIFO_KHR"

\* MAILBOX was offered after two other modes, and it was chosen.
C20_Witness ==
  /\ pc = "cs_done"
  /\ caps.presentModes =
       << "VK_PRESENT_MODE_IMMEDIATE_KHR", "VK_PRESENT_MODE_FIFO_KHR",
          "VK_PRESENT_MODE_MAILBOX_KHR" >>
  /\ createInfo.presentMode = "VK_PRESENT_MODE_MAILBOX_KHR"

\* C21: once CreateSwapchain has chosen the extent, it is the surface's
\* current extent, unchanged, if the surface reports one; otherwise it is the
\* window's pixel size with width and height each clamped into
\* [minImageExtent, maxImageExtent], and so lies within these bounds.
C21_ExtentSelection ==
  pc \in {"cs_imageCount", "cs_done"} =>
    IF CurrentExtent(caps, winSize).width # UINT32_MAX
      THEN createInfo.imageExtent = CurrentExtent(caps, winSize)
      ELSE /\ createInfo.imageExtent = ClampedIntoBounds(winSize)
           /\ InBounds(createInfo.imageExtent)

\* A window of 800x600 on a surface without an extent of its own, whose
\* bounds cut the width from above only: the extent chosen is 700x600.
C21_Witness ==
  /\ pc = "cs_done"
  /\ ~caps.fixed
  /\ winSize = Extent(WIDTH, HEIGHT)
  /\ caps.maxImageExtent = Extent(700, 4096)
  /\ createInfo.imageExtent = Extent(700, HEIGHT)

\* C22 (as stated): RecreateSwapchain never creates a swapchain while the
\* window's pixel size is zero in a dimension.
C22_NoZeroSizeSwapchain ==
  pc \in {"rc_createImageViews", "rc_createFramebuffers", "rc_return"} =>
    ~IsZero(hist.sizeAtCreate)

\* C23 (as stated): when a slot's image-acquired semaphore has been passed to
\* a new acquire, the slot's previous submission, which waits on it, has
\* finished; and when a slot's render-finished semaphore has been given a new
\* signal by a submission, no earlier presentation's wait on it is still to be
\* executed.
C23_NoSemaphoreReuse ==
  /\ pc = "reset_fence" => ~SlotBusy(currentFrame)
  /\ pc = "present" => currentFrame \notin presentsPending

\* C24: framebufferResized becomes true only inside glfwPollEvents or
\* glfwWaitEvents, called by the control thread, and becomes false only in
\* DrawFrame's branch after vkQueuePresentKHR, in the step that read it.
C24_ResizeFlagDiscipline ==
  [][ /\ (~framebufferResized /\ framebufferResized') =>
           /\ pc \in {"poll", "rc_wait"}
           /\ pc' # pc
           /\ "resize" \in events
      /\ (framebufferResized /\ ~framebufferResized') =>
           /\ pc = "present"
           /\ pc' = "rc_getsize" ]_vars

\* The flag, cleared by DrawFrame before RecreateSwapchain, was set again by
\* the callback inside RecreateSwapchain's glfwWaitEvents.
C24_Witness ==
  /\ pc = "rc_idle"
  /\ rcRet = "advance"
  /\ framebufferResized
  /\ hist.flagAtPresent

\* C25: a signaled fence becomes unsignaled only for the active slot, in
\* DrawFrame's vkResetFences step, which is reached only after this frame's
\* acquire returned success or suboptimal.
C25_FenceResetAfterAcquire ==
  /\ [](pc = "reset_fence" => res \in {"VK_SUCCESS", "VK_SUBOPTIMAL_KHR"})
  /\ [][ \A s \in Slots :
           (inFlightFences[s] /\ ~inFlightFences'[s]) =>
             /\ pc = "reset_fence"
             /\ s = currentFrame ]_vars

\* The fence was reset after a suboptimal acquire, with the other slot's
\* submission unfinished.
C25_Witness ==
  /\ pc = "record"
  /\ res = "VK_SUBOPTIMAL_KHR"
  /\ ~inFlightFences[currentFrame]
  /\ gpuQueue # << >>

\* C26: from a failed acquire to the return of that DrawFrame (or its throw),
\* no command buffer changes, no submission is added to the queue, and no
\* presentation is requested.
C26_NoWorkOnFailedAcquire ==
  [][ ( \/ pc = "acquire" /\ pc' \notin {"acquire", "reset_fence"}
        \/ rcRet = "abort" ) =>
        /\ commandBuffers' = commandBuffers
        /\ Len(gpuQueue') <= Len(gpuQueue)
        /\ imageAvailableSemaphores' = imageAvailableSemaphores
        /\ renderFinishedSemaphores' = renderFinishedSemaphores
        /\ presentsPending' \subseteq presentsPending ]_vars

\* The very first DrawFrame was aborted by an out-of-date acquire and has
\* returned: nothing was recorded or submitted.
C26_Witness ==
  /\ pc = "MainLoop"
  /\ hist.outcome = "aborted"
  /\ \A s \in Slots : commandBuffers[s] = "initial"
  /\ gpuQueue = << >>
  /\ presentsPending = {}

C28_SteadyProgress ==
  /\ (pc = "DrawFrame") ~> (pc = "MainLoop" /\ hist.outcome = "presented")
  /\ \A s \in Slots :
       /\ []<>(pc = "advance" /\ currentFrame = s)
       /\ (pc = "present" /\ currentFrame = s) ~> (s \in presentsPending)
       /\ SlotBusy(s) ~> ~SlotBusy(s)
       /\ (s \in presentsPending) ~> (s \notin presentsPending)

\* Two frames have been completed, one in each slot, and the third DrawFrame
\* has got past its fence wait.
C28_Witness ==
  /\ pc = "acquire"
  /\ currentFrame = 0
  /\ \A s \in Slots : commandBuffers[s] = "recorded"
  /\ hist.outcome = "none"
  /\ hist.presented = 0
  /\ winSize = Extent(WIDTH, HEIGHT)
  /\ ~framebufferResized

\* C29: after acquire has returned, no step of DrawFrame up to the submission
\* waits for anything (the image-acquired semaphore is waited on by the GPU),
\* and the fence wait at the start depends on the active slot's fence only.
C29_Overlap ==
  /\ (pc = "DrawFrame" /\ inFlightFences[currentFrame]) =>
       ENABLED DrawFrame_WaitForFences
  /\ pc = "reset_fence" => ENABLED DrawFrame_ResetFences
  /\ pc = "record" => ENABLED DrawFrame_Record
  /\ pc = "submit" => ENABLED DrawFrame_Submit

\* The CPU records slot 1 while the submission of slot 0 is unfinished and
\* the image-acquired semaphore of slot 1 is still to be waited on.
C29_Witness ==
  /\ pc = "record"
  /\ currentFrame = 1
  /\ SlotBusy(0)
  /\ ~SlotBusy(1)
  /\ imageAvailableSemaphores[1]

\* C30 (as stated): when Cleanup has destroyed the descriptor pool, MainLoop's
\* device-idle wait has returned before.
C30_PoolAfterDeviceIdle ==
  (pc \in TeardownPcs /\ hist.thrower # "init"
     /\ "descriptorPool" \notin liveObjects) =>
    hist.finalIdleDone

\* C40: the image count CreateSwapchain requests is minImageCount + 1 unless
\* a maximum is reported and minImageCount + 1 exceeds it, and then it is the
\* maximum; it is never below the minimum and, when a maximum is reported,
\* never above it, whatever MAX_FRAMES_IN_FLIGHT is.
C40_ImageCount ==
  pc = "cs_done" =>
    /\ (caps.maxImageCount = 0 \/ caps.minImageCount < caps.maxImageCount) =>
         createInfo.minImageCount = caps.minImageCount + 1
    /\ (caps.maxImageCount > 0 /\ caps.minImageCount >= caps.maxImageCount) =>
         createInfo.minImageCount = caps.maxImageCount
    /\ createInfo.minImageCount >= caps.minImageCount
    /\ caps.maxImageCount > 0 => createInfo.minImageCount <= caps.maxImageCount

\* The surface allows exactly three images, more than there are frame slots:
\* three are requested.
C40_Witness ==
  /\ pc = "cs_done"
  /\ caps.minImageCount = 3
  /\ caps.maxImageCount = 3
  /\ createInfo.minImageCount = 3
  /\ createInfo.minImageCount > MAX_FRAMES_IN_FLIGHT

\* C32: from CleanupSwapchain inside RecreateSwapchain to the return of
\* RecreateSwapchain, no submission is unfinished and the fence of every slot
\* is signaled.
C32_RebuildDrained ==
  pc \in {"rc_cleanup", "rc_createSwapchain", "rc_createImageViews",
          "rc_createFramebuffers", "rc_return"} =>
    /\ gpuQueue = << >>
    /\ \A s \in Slots : inFlightFences[s]

\* A rebuild on the acquire path of slot 0 reaches CleanupSwapchain after
\* both slots have had work submitted.
C32_Witness ==
  /\ pc = "rc_cleanup"
  /\ rcRet = "abort"
  /\ currentFrame = 0
  /\ \A s \in Slots : commandBuffers[s] = "recorded"
  /\ \A s \in Slots : inFlightFences[s]

C34_DestroyedOnce == ~hist.doubleDestroy

\* C37 (as stated): when a RecreateSwapchain that processed no event (it was
\* called with a non-zero size, so it did not wait) is about to return,
\* framebufferResized is clear.
C37_OneRebuildPerNotification ==
  (pc = "rc_return" /\ ~IsZero(hist.sizeAtCall)) => ~framebufferResized

\* C35 (as stated): at each step of Cleanup, what the step destroys or waits
\* on has been created.
C35_ReleasesOnlyCreated ==
  /\ pc = "Cleanup" =>
       /\ swapchain # "none"
       /\ swapchainImageViews.state # "none"
       /\ swapchainFramebuffers.state # "none"
       /\ "device" \in liveObjects
  /\ pc = "cl_imgui" => "imgui" \in liveObjects
  /\ pc = "cl_waitFences" => "fences" \in liveObjects
  /\ pc = "cl_descriptorPool" => "descriptorPool" \in liveObjects
  /\ pc = "cl_vertexBuffer" => "vertexBuffer" \in liveObjects
  /\ pc = "cl_commandPool" => "commandPool" \in liveObjects
  /\ pc = "cl_pipeline" => {"pipeline", "renderPass"} \subseteq liveObjects
  /\ pc = "cl_syncObjects" => {"semaphores", "fences"} \subseteq liveObjects
  /\ pc = "cl_device" => {"device", "window"} \subseteq liveObjects

\* C39: the application never holds more than one acquired image that it has
\* not handed to presentation, and it holds one only between the acquire and
\* the present of one DrawFrame, or after RecordCommandBuffer or
\* vkQueueSubmit threw; at the start of every DrawFrame it holds none.
C39_AcquiredIsPresented ==
  /\ hist.held <= 1
  /\ hist.held = 1 =>
       \/ pc \in {"reset_fence", "record", "submit", "present"}
       \/ pc \in TeardownPcs /\ hist.thrower \in {"record", "submit"}
  /\ pc \in {"reset_fence", "record", "submit", "present"} => hist.held = 1
  /\ pc \in {"MainLoop", "poll", "DrawFrame", "acquire"} => hist.held = 0

\* An image acquired with a suboptimal result has been handed to
\* presentation, and the rebuild that follows begins with no image held.
C39_Witness ==
  /\ pc = "rc_getsize"
  /\ rcRet = "advance"
  /\ hist.acquiredSuboptimal
  /\ hist.held = 0

\* Number of unfinished submissions that will signal the fence of slot s.
SignalsPending(s) ==
  Cardinality({ i \in 1 .. Len(gpuQueue) : gpuQueue[i].fence = s })

\* C31: when no fatal error is raised, an existing unsignaled fence has exactly one
\* unfinished submission that will signal it, or it is the active slot's
\* fence between vkResetFences and the vkQueueSubmit of the same DrawFrame;
\* and the fence wait at the start of DrawFrame always returns.
C31_NoOrphanedFence ==
  /\ [](\A s \in Slots :
          ("fences" \in liveObjects /\ ~inFlightFences[s]) =>
            \/ SignalsPending(s) = 1
            \/ /\ s = currentFrame
               /\ pc \in {"record", "submit"}
               /\ SignalsPending(s) = 0)
  /\ (pc = "DrawFrame") ~> (pc = "acquire")

\* DrawFrame is at its fence wait, the fence of its slot unsignaled and the
\* slot's previous submission unfinished.
C31_Witness ==
  /\ pc = "DrawFrame"
  /\ ~inFlightFences[currentFrame]
  /\ SignalsPending(currentFrame) = 1
  /\ hist.rebuilt

\* C36 (as stated): once should-close is true, MainLoop's final device-idle
\* wait eventually returns.
C36_CloseLeadsToIdle == shouldClose ~> hist.finalIdleDone

\* Positions of DrawFrame from its entry to the test after vkQueuePresentKHR.
DrawPcs == {"DrawFrame", "acquire", "reset_fence", "record", "submit", "present"}

====
